---- MODULE Spec2Model ----
(***************************************************************************)
(* Model of the solar-system viewer: the orbital bodies (Planet.update and *)
(* the rotation / orbit controls of Sun, Earth, Mars and the SolarSystem   *)
(* panel), the location camera (LocationCamera) and the global views of    *)
(* SolarSystem, driven by the animation loop.                              *)
(*                                                                         *)
(* Numbers are fixed point.  Body angles and speeds are micro-radians,     *)
(* periods are hundredths of a second, camera angles are 1/10000 radian,   *)
(* the camera elevation is in thousandths of the body radius.              *)
(***************************************************************************)
EXTENDS Integers, Sequences, FiniteSets, TLC

\* ------------------------------------------------------------------ bounds
MaxTicks == 2
MaxEvents == 3
MaxCameraEvents == 5

\* --------------------------------------------------------------- constants
TwoPiMicro == 6283185
PeriodScale == 100
Infinity == 2000000000
NaN == 0 - 2000000001

Bodies == {"sun", "earth", "mars"}

\* this.planets of SolarSystem: createEarth and createMars push, createSun does not
Planets == {"earth", "mars"}

\* bodies whose console pane has an orbit section and a Close View toggle
OrbitControlled == {"earth", "mars"}

\* nonScaleModelData.rotationPeriod / maxRotationPeriod / orbitalPeriod / maxOrbitalPeriod
RotationPeriod == [sun |-> 78629, earth |-> 100, mars |-> 103]
MaxRotationPeriod == [sun |-> 7863, earth |-> 10, mars |-> 10]
OrbitalPeriod == [sun |-> 0, earth |-> 6000, mars |-> 22571]
MaxOrbitalPeriod == [sun |-> 0, earth |-> 600, mars |-> 2257]

\* factData.axialTilt in hundredths of a degree, copied to group.rotation.z by applyTilt
AxialTilt == [sun |-> 725, earth |-> 2340, mars |-> 2519]

\* slider positions the user is taken to drag a 0..100 range input to
SliderValues == {0, 50, 100}

\* ------------------------------------------------- IEEE-like arithmetic
IsFinite(x) == x # Infinity /\ x # -Infinity /\ x # NaN

FNeg(a) == IF a = NaN THEN NaN ELSE -a

FAdd(a, b) ==
    IF a = NaN \/ b = NaN THEN NaN
    ELSE IF IsFinite(a) /\ IsFinite(b) THEN a + b
    ELSE IF IsFinite(a) THEN b
    ELSE IF IsFinite(b) THEN a
    ELSE IF a = b THEN a
    ELSE NaN

FSub(a, b) == FAdd(a, FNeg(b))

\* a / b for a > 0: division by zero is Infinity
JsDiv(a, b) == IF b = 0 THEN Infinity ELSE a \div b

\* x * (n / d) with 0 < n <= d
FScale(x, n, d) == IF IsFinite(x) THEN (x * n) \div d ELSE x

\* (2 * Math.PI) / (period * 60)
BaseSpeed(period) == JsDiv(TwoPiMicro * PeriodScale, period * 60)

\* the two-segment slider curve shared by every speed slider
\* the branch for 0 < value <= 50: baseSpeed * (value / 50)
LowerBranchSpeed(value, period) == FScale(BaseSpeed(period), value, 50)

\* an upper branch whose normalizedValue is value / 100
UpperBranchSpeed_fromZero(value, period, maxPeriod) ==
    LET periodDiff == period - maxPeriod
        adjustedPeriod == period - ((periodDiff * value) \div 100)
    IN  JsDiv(TwoPiMicro * PeriodScale, adjustedPeriod * 60)

\* an upper branch whose periodDiff is maxPeriod - period
UpperBranchSpeed_slowsDown(value, period, maxPeriod) ==
    LET periodDiff == maxPeriod - period
        adjustedPeriod == period - ((periodDiff * (value - 50)) \div 50)
    IN  JsDiv(TwoPiMicro * PeriodScale, adjustedPeriod * 60)

\* the branch for value > 50: the period moves from period to maxPeriod
UpperBranchSpeed(value, period, maxPeriod) ==
    LET periodDiff == period - maxPeriod
        adjustedPeriod == period - ((periodDiff * (value - 50)) \div 50)
    IN  JsDiv(TwoPiMicro * PeriodScale, adjustedPeriod * 60)

SliderSpeed(value, period, maxPeriod) ==
    IF value = 0 THEN 0
    ELSE IF value <= 50 THEN LowerBranchSpeed(value, period)
    ELSE UpperBranchSpeed(value, period, maxPeriod)

\* -------------------------------------------------------------------- state
VARIABLES
    body,             \* the fields of Sun, Earth and Mars (class Planet)
    checked,          \* the checked state of the toggle checkboxes, by element id
    camera,           \* the global variable camera: which camera object renders
    pose,             \* the position each camera object holds
    far,              \* the far clipping distance of each camera object
    controlsEnabled,  \* controls.enabled of the OrbitControls
    timers,           \* pending zero-delay timers of deactivateView
    lc,               \* the fields of the LocationCamera
    ss,               \* the fields of the SolarSystem panel
    ticks,            \* animation frames so far in which a body moved
    events,           \* user events handled so far
    lastOp,           \* the handler that ran last and its argument
    hist,             \* per location, the angles the user last set while it was active
    marker,           \* the fields of a LocationMarker a caller has made
    thrown,           \* a call on the location camera or the marker ended in a TypeError
    venus,            \* the fields of an instance of the Venus class
    standalone        \* the globals of the all-planets script: multiplier, flag, angles

vars == <<body, checked, camera, pose, far, controlsEnabled, timers, lc, ss, ticks, events, lastOp,
          hist, marker, thrown, venus, standalone>>

bodyVars == <<body, checked>>
cameraVars == <<camera, pose, far, controlsEnabled, timers, lc, ss, hist, marker, thrown,
                venus, standalone>>

\* the user operation that has just run; again: the one before it was the same
\* operation with the same argument
Op(name, target, value) ==
    [ name |-> name, target |-> target, value |-> value,
      again |-> /\ lastOp.name = name
                /\ lastOp.target = target
                /\ lastOp.value = value ]

\* a step of the browser itself: a timer callback or an animation frame
Step(name, target) == [name |-> name, target |-> target, value |-> 0, again |-> FALSE]

\* a camera position, kept as the inputs it was computed from
Pose(kind, args) == [kind |-> kind, args |-> args]
NullPose == Pose("null", <<>>)

BodyIndex == [sun |-> 0, earth |-> 1, mars |-> 2]

\* a Sun whose nonScaleModelData.orbitSpeed() is the formula the planets use
NewBody_genericOrbitSpeed(b) ==
    [ rotationEnabled |-> FALSE,
      rotationSpeed |-> BaseSpeed(RotationPeriod[b]),
      orbitEnabled |-> FALSE,
      orbitSpeed |-> BaseSpeed(OrbitalPeriod[b]),
      sphereRotY |-> 0,
      orbitRotY |-> 0,
      groupRotY |-> 0,
      groupRotZ |-> AxialTilt[b],
      closeUpViewEnabled |-> FALSE,
      sideViewEnabled |-> FALSE,
      originalCameraPosition |-> NullPose,
      prevRotationEnabled |-> FALSE,
      prevOrbitEnabled |-> FALSE ]

\* Planet constructor, followed by applyTilt
NewBody(b) ==
    [ rotationEnabled |-> FALSE,
      rotationSpeed |-> BaseSpeed(RotationPeriod[b]),
      orbitEnabled |-> FALSE,
      orbitSpeed |-> IF b = "sun" THEN 0 ELSE BaseSpeed(OrbitalPeriod[b]),
      sphereRotY |-> 0,
      orbitRotY |-> 0,
      groupRotY |-> 0,
      groupRotZ |-> AxialTilt[b],
      closeUpViewEnabled |-> FALSE,
      sideViewEnabled |-> FALSE,
      originalCameraPosition |-> NullPose,
      prevRotationEnabled |-> FALSE,
      prevOrbitEnabled |-> FALSE ]

\* the ids the console panes give their toggles (addToggle's second argument)
OwnToggleId ==
    [ sun   |-> [rotation |-> "sun-rotation-toggle"],
      earth |-> [rotation |-> "rotation-toggle", orbit |-> "orbit-toggle",
                 side |-> "side-view-toggle"],
      mars  |-> [rotation |-> "mars-rotation-toggle", orbit |-> "mars-orbit-toggle",
                 side |-> "mars-side-view-toggle"] ]

\* `${planet.constructor.name.toLowerCase()}-<kind>-toggle`
NamedToggleId(b, kind) ==
    IF kind = "rotation" THEN b \o "-rotation-toggle"
    ELSE IF kind = "orbit" THEN b \o "-orbit-toggle"
    ELSE b \o "-side-view-toggle"

InitChecked ==
    [ id \in { "sun-rotation-toggle", "rotation-toggle", "orbit-toggle", "side-view-toggle",
               "mars-rotation-toggle", "mars-orbit-toggle", "mars-side-view-toggle",
               "global-rotation-toggle", "global-orbit-toggle" } |-> FALSE ]

\* const el = document.getElementById(id); if (el) el.checked = v
SetCheckedIfPresent(c, id, v) == IF id \in DOMAIN c THEN [c EXCEPT ![id] = v] ELSE c

\* ------------------------------------------------------------ Planet.update
\* dropping the counter-rotation of the tilt frame
UpdateBody_noCounterRotation(bd) ==
    LET spun == IF bd.rotationEnabled /\ bd.rotationSpeed > 0
                THEN [bd EXCEPT !.sphereRotY = FAdd(@, bd.rotationSpeed)]
                ELSE bd
    IN  IF spun.orbitEnabled /\ spun.orbitSpeed > 0
        THEN [spun EXCEPT !.orbitRotY = FAdd(@, spun.orbitSpeed)]
        ELSE spun

\* counter-rotating the sphere instead of the group
UpdateBody_counterRotatesSphere(bd) ==
    LET spun == IF bd.rotationEnabled /\ bd.rotationSpeed > 0
                THEN [bd EXCEPT !.sphereRotY = FAdd(@, bd.rotationSpeed)]
                ELSE bd
    IN  IF spun.orbitEnabled /\ spun.orbitSpeed > 0
        THEN LET previousOrbitAngle == spun.orbitRotY
                 newOrbitAngle == FAdd(previousOrbitAngle, spun.orbitSpeed)
                 deltaAngle == FSub(newOrbitAngle, previousOrbitAngle)
             IN  [spun EXCEPT !.orbitRotY = newOrbitAngle,
                              !.sphereRotY = FSub(@, deltaAngle)]
        ELSE spun

UpdateBody(bd) ==
    LET spun == IF bd.rotationEnabled /\ bd.rotationSpeed > 0
                THEN [bd EXCEPT !.sphereRotY = FAdd(@, bd.rotationSpeed)]
                ELSE bd
    IN  IF spun.orbitEnabled /\ spun.orbitSpeed > 0
        THEN LET previousOrbitAngle == spun.orbitRotY
                 newOrbitAngle == FAdd(previousOrbitAngle, spun.orbitSpeed)
                 deltaAngle == FSub(newOrbitAngle, previousOrbitAngle)
             IN  [spun EXCEPT !.orbitRotY = newOrbitAngle,
                              !.groupRotY = FSub(@, deltaAngle)]
        ELSE spun

\* ------------------------------------------------- Planet.toggleCloseUpView
\* st = [body, checked, pose, threw]; b's close view is switched with the camera
\* object cam rendering.  Assigning .checked of an element that does not exist
\* throws a TypeError, which ends the handler where it stands.
CloseUpPose(bd, b, sideView) ==
    Pose(IF sideView THEN "closeSide" ELSE "closeUp", <<BodyIndex[b], bd.orbitRotY>>)

ToggleCloseUpView(st, b, cam, enabled, sideView) ==
    LET flagged == IF sideView
                   THEN [st.body[b] EXCEPT !.sideViewEnabled = enabled,
                                           !.closeUpViewEnabled = FALSE]
                   ELSE [st.body[b] EXCEPT !.closeUpViewEnabled = enabled,
                                           !.sideViewEnabled = FALSE]
        rotId == NamedToggleId(b, "rotation")
        orbId == NamedToggleId(b, "orbit")
    IN  IF enabled
        THEN LET entered == [flagged EXCEPT
                                !.originalCameraPosition = st.pose[cam],
                                !.prevRotationEnabled = flagged.rotationEnabled,
                                !.prevOrbitEnabled = flagged.orbitEnabled,
                                !.rotationEnabled = FALSE,
                                !.orbitEnabled = FALSE]
                 moved == [st EXCEPT !.body[b] = entered,
                                     !.pose[cam] = CloseUpPose(flagged, b, sideView)]
             IN  IF rotId \notin DOMAIN st.checked
                 THEN [moved EXCEPT !.threw = TRUE]
                 ELSE IF orbId \notin DOMAIN st.checked
                 THEN [moved EXCEPT !.checked[rotId] = FALSE, !.threw = TRUE]
                 ELSE [moved EXCEPT !.checked[rotId] = FALSE, !.checked[orbId] = FALSE]
        ELSE IF flagged.originalCameraPosition # NullPose
        THEN LET back == [st EXCEPT !.body[b] = flagged,
                                    !.pose[cam] = flagged.originalCameraPosition]
                 rot == IF flagged.prevRotationEnabled
                        THEN IF rotId \in DOMAIN st.checked
                             THEN [back EXCEPT !.body[b].rotationEnabled = TRUE,
                                               !.checked[rotId] = TRUE]
                             ELSE [back EXCEPT !.body[b].rotationEnabled = TRUE,
                                               !.threw = TRUE]
                        ELSE back
             IN  IF rot.threw \/ ~flagged.prevOrbitEnabled
                 THEN rot
                 ELSE IF orbId \in DOMAIN st.checked
                 THEN [rot EXCEPT !.body[b].orbitEnabled = TRUE, !.checked[orbId] = TRUE]
                 ELSE [rot EXCEPT !.body[b].orbitEnabled = TRUE, !.threw = TRUE]
        ELSE [st EXCEPT !.body[b] = flagged]

St0 == [body |-> body, checked |-> checked, pose |-> pose, threw |-> FALSE]

\* this.planets, in the order createEarth and createMars push them
\* (a list that also holds the Sun)
PlanetList_withSun == <<"sun", "earth", "mars">>

PlanetList == <<"earth", "mars">>

\* ------------------------------------------------------ console pane handlers
UserEvent(name, target, value) ==
    /\ events < MaxEvents
    /\ events' = events + 1
    /\ lastOp' = Op(name, target, value)
    /\ UNCHANGED ticks

Commit(st) ==
    /\ body' = st.body
    /\ checked' = st.checked
    /\ pose' = st.pose

\* 'Enable Rotation' of Sun, Earth and Mars: this.rotationEnabled = e.target.checked
RotationToggleClick(b) ==
    LET id == OwnToggleId[b].rotation
        now == ~checked[id]
    IN  /\ UserEvent("rotationToggle", b, IF now THEN 1 ELSE 0)
        /\ checked' = [checked EXCEPT ![id] = now]
        /\ body' = [body EXCEPT ![b].rotationEnabled = now]
        /\ UNCHANGED cameraVars

\* 'Rotation Speed' of Sun, Earth and Mars
\* a handler that writes the rate and leaves the flag to the toggle
RotationSliderInput_rateOnly(b, value) ==
    LET speed == SliderSpeed(value, RotationPeriod[b], MaxRotationPeriod[b])
    IN  /\ UserEvent("rotationSlider", b, value)
        /\ body' = [body EXCEPT ![b].rotationSpeed = speed]
        /\ checked' = checked
        /\ UNCHANGED cameraVars

\* a handler that also switches the rotation off when the slider is at 0
RotationSliderInput_disablesAtZero(b, value) ==
    LET speed == SliderSpeed(value, RotationPeriod[b], MaxRotationPeriod[b])
        turnOn == value > 0 /\ ~body[b].rotationEnabled
    IN  /\ UserEvent("rotationSlider", b, value)
        /\ body' = [body EXCEPT ![b].rotationSpeed = speed,
                                ![b].rotationEnabled = IF turnOn THEN TRUE ELSE value > 0]
        /\ checked' = IF turnOn THEN [checked EXCEPT ![OwnToggleId[b].rotation] = TRUE]
                      ELSE checked
        /\ UNCHANGED cameraVars

RotationSliderInput(b, value) ==
    LET speed == SliderSpeed(value, RotationPeriod[b], MaxRotationPeriod[b])
        turnOn == value > 0 /\ ~body[b].rotationEnabled
    IN  /\ UserEvent("rotationSlider", b, value)
        /\ body' = [body EXCEPT ![b].rotationSpeed = speed,
                                ![b].rotationEnabled = IF turnOn THEN TRUE ELSE @]
        /\ checked' = IF turnOn THEN [checked EXCEPT ![OwnToggleId[b].rotation] = TRUE]
                      ELSE checked
        /\ UNCHANGED cameraVars

\* the Reset button beside 'Rotation Speed': slider.value = '50'; onChange(50)
RotationResetClick(b) ==
    LET speed == SliderSpeed(50, RotationPeriod[b], MaxRotationPeriod[b])
        turnOn == ~body[b].rotationEnabled
    IN  /\ UserEvent("rotationReset", b, 50)
        /\ body' = [body EXCEPT ![b].rotationSpeed = speed,
                                ![b].rotationEnabled = TRUE]
        /\ checked' = IF turnOn THEN [checked EXCEPT ![OwnToggleId[b].rotation] = TRUE]
                      ELSE checked
        /\ UNCHANGED cameraVars

\* an orbit control that leaves the close view as it is
LeaveSideView_staysInView(st, b, cam) ==
    st

\* if (this.sideViewEnabled) { ...; this.toggleCloseUpView(false, false) }
LeaveSideView(st, b, cam) ==
    IF st.body[b].sideViewEnabled
    THEN ToggleCloseUpView(
             [st EXCEPT !.body[b].sideViewEnabled = FALSE,
                        !.checked[OwnToggleId[b].side] = FALSE],
             b, cam, FALSE, FALSE)
    ELSE st

\* 'Enable Orbit' of Earth and Mars
OrbitToggleClick(b) ==
    LET id == OwnToggleId[b].orbit
        now == ~checked[id]
        set == [St0 EXCEPT !.checked[id] = now, !.body[b].orbitEnabled = now]
    IN  /\ UserEvent("orbitToggle", b, IF now THEN 1 ELSE 0)
        /\ Commit(IF now THEN LeaveSideView(set, b, camera) ELSE set)
        /\ UNCHANGED <<camera, far, controlsEnabled, timers, lc, ss, hist, marker, thrown,
                     venus, standalone>>

\* 'Orbit Speed' of Earth and Mars
OrbitSliderInput(b, value) ==
    LET speed == SliderSpeed(value, OrbitalPeriod[b], MaxOrbitalPeriod[b])
        set == [St0 EXCEPT !.body[b].orbitSpeed = speed]
        turnOn == value > 0 /\ ~body[b].orbitEnabled
        on == [set EXCEPT !.body[b].orbitEnabled = TRUE,
                          !.checked[OwnToggleId[b].orbit] = TRUE]
    IN  /\ UserEvent("orbitSlider", b, value)
        /\ Commit(IF turnOn THEN LeaveSideView(on, b, camera) ELSE set)
        /\ UNCHANGED <<camera, far, controlsEnabled, timers, lc, ss, hist, marker, thrown,
                     venus, standalone>>

\* the Reset button beside 'Orbit Speed': slider.value = '50'; onChange(50)
OrbitResetClick(b) ==
    LET speed == SliderSpeed(50, OrbitalPeriod[b], MaxOrbitalPeriod[b])
        set == [St0 EXCEPT !.body[b].orbitSpeed = speed]
        turnOn == ~body[b].orbitEnabled
        on == [set EXCEPT !.body[b].orbitEnabled = TRUE,
                          !.checked[OwnToggleId[b].orbit] = TRUE]
    IN  /\ UserEvent("orbitReset", b, 50)
        /\ Commit(IF turnOn THEN LeaveSideView(on, b, camera) ELSE set)
        /\ UNCHANGED <<camera, far, controlsEnabled, timers, lc, ss, hist, marker, thrown,
                     venus, standalone>>

\* 'Close View' of Earth and Mars
CloseViewToggleClick(b) ==
    LET id == OwnToggleId[b].side
        now == ~checked[id]
        clicked == [St0 EXCEPT !.checked[id] = now]
        entered == ToggleCloseUpView(clicked, b, camera, TRUE, TRUE)
    IN  /\ UserEvent("closeViewToggle", b, IF now THEN 1 ELSE 0)
        /\ Commit(IF now
                  THEN IF ~entered.threw /\ entered.body[b].orbitEnabled
                       THEN [entered EXCEPT !.body[b].orbitEnabled = FALSE,
                                            !.checked[OwnToggleId[b].orbit] = FALSE]
                       ELSE entered
                  ELSE ToggleCloseUpView(clicked, b, camera, FALSE, FALSE))
        /\ UNCHANGED <<camera, far, controlsEnabled, timers, lc, ss, hist, marker, thrown,
                     venus, standalone>>

\* this.planets.forEach(f): f on each planet in order, ended by the first throw
RECURSIVE ForEachPlanet(_, _, _, _, _)
ForEachPlanet(kind, list, st, arg, cam) ==
    IF list = <<>> \/ st.threw THEN st
    ELSE LET b == Head(list)
             one ==
               IF kind = "rotationToggle"
               THEN [st EXCEPT !.body[b].rotationEnabled = arg,
                               !.checked = SetCheckedIfPresent(@, NamedToggleId(b, "rotation"), arg)]
               ELSE IF kind = "orbitToggle"
               THEN LET set == [st EXCEPT
                                  !.body[b].orbitEnabled = arg,
                                  !.checked = SetCheckedIfPresent(@, NamedToggleId(b, "orbit"), arg)]
                    IN  IF arg /\ set.body[b].sideViewEnabled
                        THEN ToggleCloseUpView(
                                 [set EXCEPT !.body[b].sideViewEnabled = FALSE,
                                             !.checked = SetCheckedIfPresent(
                                                 @, NamedToggleId(b, "side"), FALSE)],
                                 b, cam, FALSE, FALSE)
                        ELSE set
               ELSE st
         IN  ForEachPlanet(kind, Tail(list), one, arg, cam)

RECURSIVE ForEachPlanetSpeed(_, _, _, _, _)
ForEachPlanetSpeed(kind, list, st, value, cam) ==
    IF list = <<>> \/ st.threw THEN st
    ELSE LET b == Head(list)
             one ==
               IF kind = "rotationSlider"
               THEN LET set == [st EXCEPT !.body[b].rotationSpeed =
                                   SliderSpeed(value, RotationPeriod[b], MaxRotationPeriod[b])]
                    IN  IF value > 0
                        THEN [set EXCEPT
                                !.body[b].rotationEnabled = TRUE,
                                !.checked = SetCheckedIfPresent(
                                                @, NamedToggleId(b, "rotation"), TRUE)]
                        ELSE set
               ELSE LET set == [st EXCEPT !.body[b].orbitSpeed =
                                   SliderSpeed(value, OrbitalPeriod[b], MaxOrbitalPeriod[b])]
                        on == [set EXCEPT
                                 !.body[b].orbitEnabled = TRUE,
                                 !.checked = SetCheckedIfPresent(
                                                 @, NamedToggleId(b, "orbit"), TRUE)]
                    IN  IF value > 0
                        THEN IF on.body[b].sideViewEnabled
                             THEN ToggleCloseUpView(
                                      [on EXCEPT !.body[b].sideViewEnabled = FALSE,
                                                 !.checked = SetCheckedIfPresent(
                                                     @, NamedToggleId(b, "side"), FALSE)],
                                      b, cam, FALSE, FALSE)
                             ELSE on
                        ELSE set
         IN  ForEachPlanetSpeed(kind, Tail(list), one, value, cam)

\* 'Enable All Rotation' of the SolarSystem pane
GlobalRotationToggleClick ==
    LET now == ~checked["global-rotation-toggle"]
        clicked == [St0 EXCEPT !.checked["global-rotation-toggle"] = now]
    IN  /\ UserEvent("globalRotationToggle", "all", IF now THEN 1 ELSE 0)
        /\ Commit(ForEachPlanet("rotationToggle", PlanetList, clicked, now, camera))
        /\ UNCHANGED <<camera, far, controlsEnabled, timers, lc, ss, hist, marker, thrown,
                     venus, standalone>>

\* 'Enable All Orbits' of the SolarSystem pane
GlobalOrbitToggleClick ==
    LET now == ~checked["global-orbit-toggle"]
        clicked == [St0 EXCEPT !.checked["global-orbit-toggle"] = now]
    IN  /\ UserEvent("globalOrbitToggle", "all", IF now THEN 1 ELSE 0)
        /\ Commit(ForEachPlanet("orbitToggle", PlanetList, clicked, now, camera))
        /\ UNCHANGED <<camera, far, controlsEnabled, timers, lc, ss, hist, marker, thrown,
                     venus, standalone>>

\* 'Global Rotation Speed' of the SolarSystem pane
GlobalRotationSliderInput(value) ==
    LET done == ForEachPlanetSpeed("rotationSlider", PlanetList, St0, value, camera)
    IN  /\ UserEvent("globalRotationSlider", "all", value)
        /\ Commit(IF value > 0 /\ ~done.threw
                  THEN [done EXCEPT !.checked["global-rotation-toggle"] = TRUE]
                  ELSE done)
        /\ UNCHANGED <<camera, far, controlsEnabled, timers, lc, ss, hist, marker, thrown,
                     venus, standalone>>

\* 'Global Orbit Speed' of the SolarSystem pane
GlobalOrbitSliderInput(value) ==
    LET done == ForEachPlanetSpeed("orbitSlider", PlanetList, St0, value, camera)
    IN  /\ UserEvent("globalOrbitSlider", "all", value)
        /\ Commit(IF value > 0 /\ ~done.threw
                  THEN [done EXCEPT !.checked["global-orbit-toggle"] = TRUE]
                  ELSE done)
        /\ UNCHANGED <<camera, far, controlsEnabled, timers, lc, ss, hist, marker, thrown,
                     venus, standalone>>

\* this.planets.forEach(planet => { planet.<kind>Speed = baseSpeed }) of the two
\* Reset buttons of the SolarSystem pane
RECURSIVE ForEachPlanetReset(_, _, _)
ForEachPlanetReset(kind, list, bodies) ==
    IF list = <<>> THEN bodies
    ELSE LET b == Head(list)
             one == IF kind = "rotation"
                    THEN [bodies EXCEPT ![b].rotationSpeed = BaseSpeed(RotationPeriod[b])]
                    ELSE [bodies EXCEPT ![b].orbitSpeed = BaseSpeed(OrbitalPeriod[b])]
         IN  ForEachPlanetReset(kind, Tail(list), one)

\* the Reset button beside 'Global Rotation Speed'
GlobalRotationResetClick ==
    /\ UserEvent("globalRotationReset", "all", 50)
    /\ body' = ForEachPlanetReset("rotation", PlanetList, body)
    /\ UNCHANGED <<checked, cameraVars>>

\* the Reset button beside 'Global Orbit Speed'
GlobalOrbitResetClick ==
    /\ UserEvent("globalOrbitReset", "all", 50)
    /\ body' = ForEachPlanetReset("orbit", PlanetList, body)
    /\ UNCHANGED <<checked, cameraVars>>

\* ----------------------------------------------------------- LocationCamera
\* camera angles in 1/10000 radian
Pi == 31416
TwoPi == 62832
\* Math.PI/2 - 0.1
VerticalLimit == 14708
\* the step of the arrow buttons, 0.1
ArrowStep == 1000
\* defaultElevation and the elevation of every cameraSettings entry, 0.01
DefaultElevation == 10

Locations == {"budapest", "kiruna"}
LocationIndex == [budapest |-> 1, kiruna |-> 2]
GlobalViews == {"topView", "sideView", "sunView", "earthView"}
Views == GlobalViews \cup Locations

Settings(h, v, e) == [horizontalAngle |-> h, verticalAngle |-> v, elevation |-> e]
NoSettings == [stored |-> FALSE, horizontalAngle |-> 0, verticalAngle |-> 0, elevation |-> 0]
Stored(h, v, e) == [stored |-> TRUE, horizontalAngle |-> h, verticalAngle |-> v, elevation |-> e]

\* a clamp that forgets the lower limit
ClampVertical_upperOnly(a) == IF a > VerticalLimit THEN VerticalLimit ELSE a

\* Math.max(-Math.PI/2 + 0.1, Math.min(Math.PI/2 - 0.1, a))
ClampVertical(a) ==
    LET upper == IF a < VerticalLimit THEN a ELSE VerticalLimit
    IN  IF upper > -VerticalLimit THEN upper ELSE -VerticalLimit

\* LocationCamera constructor
NewLocationCamera ==
    [ isActive |-> FALSE,
      activeLocation |-> "none",
      originalCamera |-> "null",
      hasLocationCamera |-> FALSE,
      earth |-> TRUE,
      originalControlsEnabled |-> "undefined",
      cameraHorizontalAngle |-> 0,
      cameraVerticalAngle |-> 0,
      cameraElevation |-> DefaultElevation,
      viewDirection |-> 0,
      locationSettings |-> [l \in Locations |-> NoSettings] ]

\* new LocationMarker(LOCATIONS.KIRUNA), not attached to a planet yet
NewMarker == [mesh |-> FALSE, planet |-> "null", positioned |-> FALSE]

\* cs = [lc, camera, pose, far, controlsEnabled, timers, ss, marker, thrown]: what
\* the methods of LocationCamera, LocationMarker and SolarSystem read and write
Cs0 ==
    [ lc |-> lc, camera |-> camera, pose |-> pose, far |-> far,
      controlsEnabled |-> controlsEnabled, timers |-> timers, ss |-> ss,
      marker |-> marker, thrown |-> thrown ]

CommitCamera(cs) ==
    /\ lc' = cs.lc
    /\ camera' = cs.camera
    /\ pose' = cs.pose
    /\ far' = cs.far
    /\ controlsEnabled' = cs.controlsEnabled
    /\ timers' = cs.timers
    /\ ss' = cs.ss
    /\ marker' = cs.marker
    /\ thrown' = cs.thrown

\* the pose updateView gives the location camera: a function of the location, the
\* elevation, the two angles as they stand on entry, and Earth's orientation
LocationPose(l, cam, earth) ==
    Pose("location", <<LocationIndex[l], cam.cameraElevation, cam.cameraHorizontalAngle,
                       cam.cameraVerticalAngle, earth.orbitRotY, earth.groupRotY,
                       earth.sphereRotY>>)

\* an updateView that leaves the vertical angle as it is
UpdateView_noClamp(cs, earth) ==
    LET c == cs.lc
    IN  IF ~c.isActive \/ ~c.hasLocationCamera \/ c.activeLocation = "none" \/ ~c.earth
        THEN cs
        ELSE [cs EXCEPT
                !.lc.locationSettings[c.activeLocation] =
                    Stored(c.cameraHorizontalAngle, c.cameraVerticalAngle, c.cameraElevation),
                !.pose.location = LocationPose(c.activeLocation, c, earth),
                !.lc.viewDirection = c.cameraHorizontalAngle]

UpdateView(cs, earth) ==
    LET c == cs.lc
    IN  IF ~c.isActive \/ ~c.hasLocationCamera \/ c.activeLocation = "none" \/ ~c.earth
        THEN cs
        ELSE [cs EXCEPT
                !.lc.locationSettings[c.activeLocation] =
                    Stored(c.cameraHorizontalAngle, c.cameraVerticalAngle, c.cameraElevation),
                !.pose.location = LocationPose(c.activeLocation, c, earth),
                !.lc.cameraVerticalAngle = ClampVertical(c.cameraVerticalAngle),
                !.lc.viewDirection = c.cameraHorizontalAngle]

BoolName(x) == IF x THEN "true" ELSE "false"

\* a deactivateView that leaves activeLocation set
DeactivateView_keepsLocation(cs) ==
    IF ~cs.lc.isActive THEN cs
    ELSE LET off == [cs EXCEPT !.lc.isActive = FALSE]
             restored ==
               IF off.lc.originalCamera # "null"
               THEN [off EXCEPT
                       !.camera = off.lc.originalCamera,
                       !.controlsEnabled =
                           IF off.lc.originalControlsEnabled # "undefined"
                           THEN off.lc.originalControlsEnabled = "true"
                           ELSE TRUE]
               ELSE off
         IN  [restored EXCEPT !.timers = @ + 1]

\* a deactivateView that schedules its timer before the isActive test
DeactivateView_alwaysSchedules(cs) ==
    IF ~cs.lc.isActive THEN [cs EXCEPT !.timers = @ + 1]
    ELSE LET off == [cs EXCEPT !.lc.isActive = FALSE, !.lc.activeLocation = "none"]
             restored ==
               IF off.lc.originalCamera # "null"
               THEN [off EXCEPT
                       !.camera = off.lc.originalCamera,
                       !.controlsEnabled =
                           IF off.lc.originalControlsEnabled # "undefined"
                           THEN off.lc.originalControlsEnabled = "true"
                           ELSE TRUE]
               ELSE off
         IN  [restored EXCEPT !.timers = @ + 1]

\* a deactivateView that neither restores controls.enabled nor schedules the timer
DeactivateView_controlsStayOff(cs) ==
    IF ~cs.lc.isActive THEN cs
    ELSE LET off == [cs EXCEPT !.lc.isActive = FALSE, !.lc.activeLocation = "none"]
         IN  IF off.lc.originalCamera # "null"
             THEN [off EXCEPT !.camera = off.lc.originalCamera]
             ELSE off

DeactivateView(cs) ==
    IF ~cs.lc.isActive THEN cs
    ELSE LET off == [cs EXCEPT !.lc.isActive = FALSE, !.lc.activeLocation = "none"]
             restored ==
               IF off.lc.originalCamera # "null"
               THEN [off EXCEPT
                       !.camera = off.lc.originalCamera,
                       !.controlsEnabled =
                           IF off.lc.originalControlsEnabled # "undefined"
                           THEN off.lc.originalControlsEnabled = "true"
                           ELSE TRUE]
               ELSE off
         IN  [restored EXCEPT !.timers = @ + 1]

\* activateView(location), with window.solarSystem.cameraSettings given as settings
ActivateViewFrom(cs, l, settings, earth, deactivated) ==
    LET stored == deactivated.lc.locationSettings[l]
        from == IF stored.stored THEN stored ELSE settings[l]
        on == [deactivated EXCEPT
                 !.lc.originalCamera = deactivated.camera,
                 !.lc.hasLocationCamera = TRUE,
                 !.far.location = 1000000,
                 !.lc.activeLocation = l,
                 !.lc.isActive = TRUE,
                 !.lc.cameraHorizontalAngle = from.horizontalAngle,
                 !.lc.cameraVerticalAngle = from.verticalAngle,
                 !.lc.cameraElevation = from.elevation,
                 !.lc.locationSettings[l] =
                     Stored(from.horizontalAngle, from.verticalAngle, from.elevation),
                 !.lc.viewDirection = from.horizontalAngle,
                 !.camera = "location"]
        viewed == UpdateView(on, earth)
    IN  [viewed EXCEPT !.lc.originalControlsEnabled = BoolName(viewed.controlsEnabled),
                       !.controlsEnabled = FALSE]

\* what activateView may be handed: an attached marker, the marker a caller has
\* made, or nothing
MarkerArgs == Locations \cup {"spare", "null"}

\* location.mesh
HasMesh(cs, location) ==
    IF location = "null" THEN FALSE
    ELSE IF location = "spare" THEN cs.marker.mesh
    ELSE TRUE

\* location.options.name.toLowerCase()
LocationId(location) == IF location = "spare" THEN "kiruna" ELSE location

\* "!this.earth || !location || !location.mesh"
MissingReference(cs, location) ==
    ~cs.lc.earth \/ location = "null" \/ ~HasMesh(cs, location)

\* an activateView without "if (this.isActive) this.deactivateView()"
ActivateView_noDeactivate(cs, l, settings, earth) ==
    IF MissingReference(cs, l) THEN cs
    ELSE ActivateViewFrom(cs, LocationId(l), settings, earth, cs)

\* an activateView without its first line: with a reference missing it gets as
\* far as the first use of the reference and ends in a TypeError
ActivateView_noGuard(cs, l, settings, earth) ==
    IF MissingReference(cs, l)
    THEN LET deactivated == DeactivateView(cs)
         IN  [deactivated EXCEPT !.lc.originalCamera = deactivated.camera,
                                 !.lc.hasLocationCamera = TRUE,
                                 !.lc.isActive = TRUE,
                                 !.thrown = TRUE]
    ELSE ActivateViewFrom(cs, LocationId(l), settings, earth, DeactivateView(cs))

ActivateView(cs, l, settings, earth) ==
    IF MissingReference(cs, l) THEN cs
    ELSE ActivateViewFrom(cs, LocationId(l), settings, earth, DeactivateView(cs))

\* LocationMarker.updatePosition of the marker a caller has made
UpdatePosition(cs) ==
    IF ~cs.marker.mesh \/ cs.marker.planet = "null" THEN cs
    ELSE [cs EXCEPT !.marker.positioned = TRUE]

\* LocationMarker.attachToPlanet(planet) of the marker a caller has made
AttachToPlanet(cs, planet) ==
    IF planet = "null" THEN cs
    ELSE UpdatePosition([cs EXCEPT !.marker.planet = planet, !.marker.mesh = TRUE])

\* ---------------------------------------------------------------- SolarSystem
\* SolarSystem constructor: cameraSettings, activeView, inLocationView; the
\* horizontal slider is built around -locationCamera.cameraHorizontalAngle
NewSolarSystem ==
    [ activeView |-> "null",
      inLocationView |-> FALSE,
      markersVisible |-> TRUE,
      horizontalCenter |-> 0,
      cameraSettings |->
          [v \in Views |-> Settings(IF v = "kiruna" THEN 0 ELSE Pi, 0, DefaultElevation)] ]

\* updateCameraControls()
UpdateCameraControls(cs, earth) ==
    IF cs.ss.activeView = "null" THEN cs
    ELSE LET settings == cs.ss.cameraSettings[cs.ss.activeView]
             sliders == [cs EXCEPT !.ss.horizontalCenter = -settings.horizontalAngle]
         IN  IF sliders.lc.isActive
             THEN UpdateView([sliders EXCEPT
                                !.lc.cameraHorizontalAngle = settings.horizontalAngle,
                                !.lc.cameraVerticalAngle = settings.verticalAngle,
                                !.lc.cameraElevation = settings.elevation],
                             earth)
             ELSE sliders

\* the click handler of a 'View from <location>' button
LocationViewResult(cs, l, earth) ==
    LET entering == [cs EXCEPT !.ss.inLocationView = TRUE, !.ss.markersVisible = FALSE]
        activated == ActivateView(entering, l, entering.ss.cameraSettings, earth)
    IN  UpdateCameraControls([activated EXCEPT !.ss.activeView = l], earth)

\* global camera geometry: camera.fov is 45 degrees, the window is landscape
\* 1000 * tan(22.5 degrees)
TanHalfFovMilli == 414
OrbitRadius == [sun |-> 0, earth |-> 74800, mars |-> 114000]
Diameter == [sun |-> 27828, earth |-> 12742, mars |-> 6779]

RECURSIVE MaxOrbitRadius(_)
MaxOrbitRadius(list) ==
    IF list = <<>> THEN 0
    ELSE LET rest == MaxOrbitRadius(Tail(list))
             r == OrbitRadius[Head(list)]
         IN  IF r > rest THEN r ELSE rest

TopDistance == ((((2 * MaxOrbitRadius(PlanetList)) * 500) \div TanHalfFovMilli) * 12) \div 10
SideDistance == (OrbitRadius["earth"] * 15) \div 10
SunDistance == (Diameter["sun"] * 5000) \div (TanHalfFovMilli * 8)
EarthDistance == (Diameter["earth"] * 1000) \div TanHalfFovMilli

\* body-framing views that also set the far distance from their own distance
FrameView_alwaysSetsFar(cs, cam, view, earth) ==
    IF view = "topView"
    THEN [cs EXCEPT !.far[cam] = TopDistance * 10, !.pose[cam] = Pose("top", <<TopDistance>>)]
    ELSE IF view = "sideView"
    THEN [cs EXCEPT !.far[cam] = SideDistance * 10, !.pose[cam] = Pose("side", <<SideDistance>>)]
    ELSE IF view = "sunView"
    THEN [cs EXCEPT !.far[cam] = SunDistance * 10, !.pose[cam] = Pose("sun", <<SunDistance>>)]
    ELSE [cs EXCEPT !.far[cam] = EarthDistance * 10,
                    !.pose[cam] = Pose("earth", <<EarthDistance, earth.orbitRotY>>)]

\* the pose and far distance a global view gives the camera object cam
FrameView(cs, cam, view, earth) ==
    IF view = "topView"
    THEN [cs EXCEPT !.far[cam] = TopDistance * 10, !.pose[cam] = Pose("top", <<TopDistance>>)]
    ELSE IF view = "sideView"
    THEN [cs EXCEPT !.far[cam] = SideDistance * 10, !.pose[cam] = Pose("side", <<SideDistance>>)]
    ELSE IF view = "sunView"
    THEN [cs EXCEPT !.pose[cam] = Pose("sun", <<SunDistance>>)]
    ELSE [cs EXCEPT !.pose[cam] = Pose("earth", <<EarthDistance, earth.orbitRotY>>)]

\* the "if we're in a location view, deactivate it first" block of the set*View methods
LeaveLocationView(cs) ==
    IF cs.lc.isActive
    THEN LET left == DeactivateView(cs)
         IN  IF left.ss.inLocationView
             THEN [left EXCEPT !.ss.inLocationView = FALSE, !.ss.markersVisible = TRUE]
             ELSE left
    ELSE cs

\* a set*View that places the camera before it leaves the location view
SetGlobalView_poseFirst(cs, view, earth) ==
    LET framed == FrameView(cs, cs.camera, view, earth)
        left == LeaveLocationView(framed)
    IN  UpdateCameraControls([left EXCEPT !.ss.activeView = view], earth)

\* setTopView, setSideView, setSunView, setEarthView
SetGlobalView(cs, view, earth) ==
    LET left == LeaveLocationView(cs)
        framed == FrameView(left, left.camera, view, earth)
    IN  UpdateCameraControls([framed EXCEPT !.ss.activeView = view], earth)

\* "if (this.activeView && this.cameraSettings[this.activeView]) ... = value"
SaveSetting(cs, field, value) ==
    IF cs.ss.activeView = "null" THEN cs
    ELSE [cs EXCEPT !.ss.cameraSettings[cs.ss.activeView][field] = value]

\* the else branch of the three input handlers: the global camera is moved
AdjustGlobal(cs, which, value) ==
    IF cs.ss.activeView = "null" THEN cs
    ELSE [cs EXCEPT !.pose[cs.camera] = Pose("adjusted", <<which, value>>)]

\* the input handler of the 'Camera Height' slider
ElevationInputResult(cs, elevation, earth) ==
    LET saved == SaveSetting(cs, "elevation", elevation)
    IN  IF saved.lc.isActive
        THEN UpdateView([saved EXCEPT !.lc.cameraElevation = elevation], earth)
        ELSE AdjustGlobal(saved, 1, elevation)

\* a horizontal input handler that does not save the angle for the active view
HorizontalInputResult_noSave(cs, sliderValue, earth) ==
    LET cameraAngle == -sliderValue
    IN  IF cs.lc.isActive
        THEN UpdateView([cs EXCEPT !.lc.cameraHorizontalAngle = cameraAngle], earth)
        ELSE AdjustGlobal(cs, 2, cameraAngle)

\* the input handler of the 'Horizontal Angle' slider
HorizontalInputResult(cs, sliderValue, earth) ==
    LET cameraAngle == -sliderValue
        saved == SaveSetting(cs, "horizontalAngle", cameraAngle)
    IN  IF saved.lc.isActive
        THEN UpdateView([saved EXCEPT !.lc.cameraHorizontalAngle = cameraAngle], earth)
        ELSE AdjustGlobal(saved, 2, cameraAngle)

\* the input handler of the 'Vertical Angle' slider
VerticalInputResult(cs, verticalAngle, earth) ==
    LET saved == SaveSetting(cs, "verticalAngle", verticalAngle)
    IN  IF saved.lc.isActive
        THEN UpdateView([saved EXCEPT !.lc.cameraVerticalAngle = verticalAngle], earth)
        ELSE AdjustGlobal(saved, 3, ClampVertical(verticalAngle))

\* a % n of JavaScript, n > 0: the sign of the dividend
JsRem(a, n) == IF a >= 0 THEN a % n ELSE -((-a) % n)

\* the up (-0.1) and down (+0.1) arrow buttons
VerticalArrowResult(cs, step, earth) ==
    IF cs.ss.activeView = "null" THEN cs
    ELSE LET newAngle == cs.ss.cameraSettings[cs.ss.activeView].verticalAngle + step
             saved == SaveSetting(cs, "verticalAngle", ClampVertical(newAngle))
         IN  IF saved.lc.isActive
             THEN UpdateView([saved EXCEPT !.lc.cameraVerticalAngle = ClampVertical(newAngle)],
                             earth)
             ELSE saved

\* the left (+0.1) and right (-0.1) arrow buttons
HorizontalArrowResult(cs, step, earth) ==
    IF cs.ss.activeView = "null" THEN cs
    ELSE LET moved == JsRem(cs.ss.cameraSettings[cs.ss.activeView].horizontalAngle + step, TwoPi)
             newAngle == IF moved < 0 THEN moved + TwoPi ELSE moved
             saved == SaveSetting(cs, "horizontalAngle", newAngle)
         IN  IF saved.lc.isActive
             THEN UpdateView([saved EXCEPT !.lc.cameraHorizontalAngle = newAngle], earth)
             ELSE saved

\* ------------------------------------------------------ camera pane handlers
\* elevationInput.min, elevationInput.max, in thousandths of the radius
ElevationMin == 1
ElevationMax == 50
ElevationValues == {30}
\* positions and values beyond the slider's range
ElevationOutOfRange == {80}
HorizontalOffsets == {20000}
VerticalSliderValues == {-14700}
\* values a caller of the setter may pass, beyond the slider's own range
VerticalAngleValues == VerticalSliderValues \cup {-20000, 14708, 16000, 30000}

CameraEvent(name, target, value) ==
    /\ events < MaxCameraEvents
    /\ events' = events + 1
    /\ lastOp' = Op(name, target, value)
    /\ UNCHANGED <<ticks, checked, body, venus, standalone>>

NoHistory == [h |-> <<>>, v |-> <<>>, e |-> <<>>]

\* the user set field of the active location to value
Remember(field, value) ==
    IF lc.isActive
    THEN hist' = [hist EXCEPT ![lc.activeLocation][field] = <<value>>]
    ELSE UNCHANGED hist

LocationViewClick(l) ==
    /\ CameraEvent("locationView", l, 0)
    /\ CommitCamera(LocationViewResult(Cs0, l, body["earth"]))
    /\ UNCHANGED hist

GlobalViewClick(view) ==
    /\ CameraEvent("globalView", view, 0)
    /\ CommitCamera(SetGlobalView(Cs0, view, body["earth"]))
    /\ UNCHANGED hist

\* the value a range input holds when its thumb is dragged to position: the
\* position brought into [min, max]
RangeInputValue_unbounded(position, min, max) == position

RangeInputValue(position, min, max) ==
    IF position < min THEN min ELSE IF position > max THEN max ELSE position

\* the 'Camera Height' slider dragged to position
ElevationInput(position) ==
    LET elevation == RangeInputValue(position, ElevationMin, ElevationMax)
        done == ElevationInputResult(Cs0, elevation, body["earth"])
    IN  /\ CameraEvent("elevationInput", "slider", elevation)
        /\ CommitCamera(done)
        /\ Remember("e", elevation)

\* cameraElevation assigned by a caller, not through the slider, then updateView
ElevationSet(elevation) ==
    /\ CameraEvent("elevationSet", "locationCamera", elevation)
    /\ CommitCamera(ElevationInputResult(Cs0, elevation, body["earth"]))
    /\ Remember("e", elevation)

\* the slider offers [center - pi, center + pi] around the value it was last given
HorizontalInput(offset) ==
    LET done == HorizontalInputResult(Cs0, ss.horizontalCenter + offset, body["earth"])
    IN  /\ CameraEvent("horizontalInput", "slider", ss.horizontalCenter + offset)
        /\ CommitCamera(done)
        /\ Remember("h", -(ss.horizontalCenter + offset))

VerticalInput(verticalAngle) ==
    LET done == VerticalInputResult(Cs0, verticalAngle, body["earth"])
    IN  /\ CameraEvent("verticalInput", "slider", verticalAngle)
        /\ CommitCamera(done)
        /\ Remember("v", verticalAngle)

VerticalArrowClick(step) ==
    LET done == VerticalArrowResult(Cs0, step, body["earth"])
    IN  /\ CameraEvent("verticalArrow", "button", step)
        /\ CommitCamera(done)
        /\ Remember("v", done.lc.cameraVerticalAngle)

HorizontalArrowClick(step) ==
    LET done == HorizontalArrowResult(Cs0, step, body["earth"])
    IN  /\ CameraEvent("horizontalArrow", "button", step)
        /\ CommitCamera(done)
        /\ Remember("h", done.lc.cameraHorizontalAngle)

\* a drag on the canvas: OrbitControls, when enabled, move the camera they were
\* built on, the global camera
OrbitDrag ==
    /\ controlsEnabled
    /\ CameraEvent("orbitDrag", "canvas", 0)
    /\ pose' = [pose EXCEPT !.global = Pose("dragged", <<>>)]
    /\ UNCHANGED <<camera, far, controlsEnabled, timers, lc, ss, hist, marker, thrown,
                     venus, standalone>>

\* the callback deactivateView hands to setTimeout(..., 0)
TimerFires ==
    /\ timers > 0
    /\ timers' = timers - 1
    /\ controlsEnabled' = TRUE
    /\ lastOp' = Step("timer", "controls")
    /\ UNCHANGED <<body, checked, camera, pose, far, lc, ss, ticks, events, hist, marker, thrown,
                   venus, standalone>>

\* locationCamera.deactivateView() called on its own
DeactivateViewCall ==
    /\ CameraEvent("deactivateView", "locationCamera", 0)
    /\ CommitCamera(DeactivateView(Cs0))
    /\ UNCHANGED hist

\* locationCamera.setEarth(earth), with the Earth object or with null
SetEarth(earth) ==
    /\ CameraEvent("setEarth", "locationCamera", IF earth THEN 1 ELSE 0)
    /\ CommitCamera([Cs0 EXCEPT !.lc.earth = earth])
    /\ UNCHANGED hist

\* locationCamera.activateView(location) called on its own
ActivateViewCall(location) ==
    /\ CameraEvent("activateView", location, 0)
    /\ CommitCamera(ActivateView(Cs0, location, ss.cameraSettings, body["earth"]))
    /\ UNCHANGED hist

\* locationCamera.updateView() called on its own
UpdateViewCall ==
    /\ CameraEvent("updateView", "locationCamera", 0)
    /\ CommitCamera(UpdateView(Cs0, body["earth"]))
    /\ UNCHANGED hist

\* marker.attachToPlanet(planet), with the Earth object or with null
MarkerAttach(planet) ==
    /\ CameraEvent("attachToPlanet", planet, 0)
    /\ CommitCamera(AttachToPlanet(Cs0, planet))
    /\ UNCHANGED hist

\* marker.updatePosition()
MarkerUpdatePosition ==
    /\ CameraEvent("updatePosition", "marker", 0)
    /\ CommitCamera(UpdatePosition(Cs0))
    /\ UNCHANGED hist

\* ------------------------------------------------------------------ animate
\* one frame: sun.update, earth.update, mars.update, locationCamera.update
\* a frame in which the location camera is updated before the bodies
Tick_cameraFirst ==
    LET moved == [b \in Bodies |-> UpdateBody(body[b])]
    IN  /\ ticks < MaxTicks
        /\ ticks' = IF moved = body THEN ticks ELSE ticks + 1
        /\ body' = moved
        /\ CommitCamera(UpdateView(Cs0, body["earth"]))
        /\ lastOp' = Step("tick", "all")
        /\ UNCHANGED <<checked, events, hist, venus, standalone>>

\* animate(): solarSystem.update (Sun, Earth, Mars, then the location camera),
\* then the frame is rendered from the camera in use
Tick ==
    LET moved == [b \in Bodies |-> UpdateBody(body[b])]
    IN  /\ ticks < MaxTicks
        /\ ticks' = IF moved = body THEN ticks ELSE ticks + 1
        /\ body' = moved
        /\ CommitCamera(UpdateView(Cs0, moved["earth"]))
        /\ lastOp' = Step("tick", "all")
        /\ UNCHANGED <<checked, events, hist, venus, standalone>>

\* ---------------------------------------------------------------- Venus class
\* venusNonScaleModelData.rotationPeriod = 10 * (5832.5 / 23.93) seconds, and
\* maxRotationPeriod a tenth of it; orbital periods 600 and 60 * (224.7 / 365.25)
VenusRotationPeriod == 243732
VenusMaxRotationPeriod == 24373
VenusOrbitalPeriod == 36912
VenusMaxOrbitalPeriod == 3691
\* venusFactData.axialTilt, in hundredths of a degree
VenusAxialTilt == 17730

\* Venus constructor, followed by applyTilt
NewVenus ==
    [ rotationEnabled |-> FALSE,
      rotationSpeed |-> BaseSpeed(VenusRotationPeriod),
      orbitEnabled |-> FALSE,
      orbitSpeed |-> BaseSpeed(VenusOrbitalPeriod),
      sphereRotY |-> 0,
      orbitRotY |-> 0,
      groupRotY |-> 0,
      groupRotZ |-> VenusAxialTilt,
      toggleChecked |-> FALSE ]

\* an update that subtracts the rotation speed
VenusUpdate_subtracts(v) ==
    LET spun == IF v.rotationEnabled /\ v.rotationSpeed > 0
                THEN [v EXCEPT !.sphereRotY = FSub(@, v.rotationSpeed)]
                ELSE v
    IN  IF spun.orbitEnabled /\ spun.orbitSpeed > 0
        THEN LET previousOrbitAngle == spun.orbitRotY
                 newOrbitAngle == FAdd(previousOrbitAngle, spun.orbitSpeed)
                 deltaAngle == FSub(newOrbitAngle, previousOrbitAngle)
             IN  [spun EXCEPT !.orbitRotY = newOrbitAngle,
                              !.groupRotY = FSub(@, deltaAngle)]
        ELSE spun

\* Venus.update: this.sphere.rotation.y += this.rotationSpeed
VenusUpdate(v) ==
    LET spun == IF v.rotationEnabled /\ v.rotationSpeed > 0
                THEN [v EXCEPT !.sphereRotY = FAdd(@, v.rotationSpeed)]
                ELSE v
    IN  IF spun.orbitEnabled /\ spun.orbitSpeed > 0
        THEN LET previousOrbitAngle == spun.orbitRotY
                 newOrbitAngle == FAdd(previousOrbitAngle, spun.orbitSpeed)
                 deltaAngle == FSub(newOrbitAngle, previousOrbitAngle)
             IN  [spun EXCEPT !.orbitRotY = newOrbitAngle,
                              !.groupRotY = FSub(@, deltaAngle)]
        ELSE spun

\* the frame of the Venus actions: the SolarSystem page does not move
VenusEvent(name, value) ==
    /\ UserEvent(name, "venus", value)
    /\ UNCHANGED <<body, checked, camera, pose, far, controlsEnabled, timers, lc, ss, hist,
                   marker, thrown, standalone>>

\* 'Enable Rotation' of the Venus pane
VenusRotationToggleClick ==
    LET now == ~venus.toggleChecked
    IN  /\ VenusEvent("venusRotationToggle", IF now THEN 1 ELSE 0)
        /\ venus' = [venus EXCEPT !.toggleChecked = now, !.rotationEnabled = now]

\* 'Rotation Speed' of the Venus pane
VenusRotationSliderInput(value) ==
    LET turnOn == value > 0 /\ ~venus.rotationEnabled
    IN  /\ VenusEvent("venusRotationSlider", value)
        /\ venus' = [venus EXCEPT
                        !.rotationSpeed =
                            SliderSpeed(value, VenusRotationPeriod, VenusMaxRotationPeriod),
                        !.rotationEnabled = IF turnOn THEN TRUE ELSE @,
                        !.toggleChecked = IF turnOn THEN TRUE ELSE @]

\* venus.update(time), once per animation frame
VenusUpdateCall ==
    /\ ticks < MaxTicks
    /\ ticks' = ticks + 1
    /\ venus' = VenusUpdate(venus)
    /\ lastOp' = Step("venusUpdate", "venus")
    /\ UNCHANGED <<body, checked, camera, pose, far, controlsEnabled, timers, lc, ss, events,
                   hist, marker, thrown, standalone>>

\* ------------------------------------------------------ the all-planets script
\* two of the entries of planetData: the retrograde one and a prograde one
StandaloneNames == {"venus", "earth"}
\* planetData[name].rotationPeriod, in hundredths of a day
DataRotationPeriod == [venus |-> 24300, earth |-> 100]
\* Math.sqrt(planetData[name].distance), in thousandths
SqrtDistance == [venus |-> 1342, earth |-> 1581]
\* the range input 'spin-speed' (min 0, max 100, step 0.1), in tenths
SpinSpeedValues == {0, 10, 1000}
\* Math.random() * Math.PI * 2, in micro-radians
StartAngles == {0, 3141592}

\* the globals after init(): planets[name].angle starts anywhere on the circle
NewStandalone(angle) ==
    [ spinSpeedMultiplier |-> 10,
      orbitSpeedMultiplier |-> 10,
      orbitingEnabled |-> TRUE,
      sunRotY |-> 0,
      angle |-> angle,
      meshRotY |-> [name \in StandaloneNames |-> 0] ]

\* (0.01 * spinSpeedMultiplier) / planet.data.rotationPeriod, in micro-radians
SpinDelta(sa, name) == (100000 * sa.spinSpeedMultiplier) \div DataRotationPeriod[name]

\* (0.005 * orbitSpeedMultiplier) / Math.sqrt(planet.data.distance)
OrbitDelta(sa, name) == (500000 * sa.orbitSpeedMultiplier) \div SqrtDistance[name]

\* a loop body without the test of the name
AnimatePlanets_noBranch(sa) ==
    [sa EXCEPT
        !.sunRotY = @ + 100 * sa.spinSpeedMultiplier,
        !.angle = [name \in StandaloneNames |->
                      IF sa.orbitingEnabled THEN @[name] + OrbitDelta(sa, name) ELSE @[name]],
        !.meshRotY = [name \in StandaloneNames |-> @[name] + SpinDelta(sa, name)]]

\* animate(): the Sun, then for (const [name, planet] of Object.entries(planets))
AnimatePlanets(sa) ==
    [sa EXCEPT
        !.sunRotY = @ + 100 * sa.spinSpeedMultiplier,
        !.angle = [name \in StandaloneNames |->
                      IF sa.orbitingEnabled THEN @[name] + OrbitDelta(sa, name) ELSE @[name]],
        !.meshRotY = [name \in StandaloneNames |->
                         IF name = "venus"
                         THEN @[name] - SpinDelta(sa, name)
                         ELSE @[name] + SpinDelta(sa, name)]]

StandaloneEvent(name, value) ==
    /\ UserEvent(name, "standalone", value)
    /\ UNCHANGED <<body, checked, camera, pose, far, controlsEnabled, timers, lc, ss, hist,
                   marker, thrown, venus>>

\* the input handler of the 'spin-speed' slider
SpinSpeedInput(value) ==
    /\ StandaloneEvent("spinSpeed", value)
    /\ standalone' = [standalone EXCEPT !.spinSpeedMultiplier = value]

\* toggleOrbiting(), the click handler of 'toggle-orbit-btn'
ToggleOrbiting ==
    /\ StandaloneEvent("toggleOrbiting", IF standalone.orbitingEnabled THEN 0 ELSE 1)
    /\ standalone' = [standalone EXCEPT !.orbitingEnabled = ~@]

\* one animation frame of the all-planets script
Animate ==
    /\ ticks < MaxTicks
    /\ ticks' = ticks + 1
    /\ standalone' = AnimatePlanets(standalone)
    /\ lastOp' = Step("animate", "standalone")
    /\ UNCHANGED <<body, checked, camera, pose, far, controlsEnabled, timers, lc, ss, events,
                   hist, marker, thrown, venus>>

\* -------------------------------------------------------------- specification
\* index.html init(): the global camera is placed above the system, far 1000000
InitPanelRest ==
    /\ camera = "global"
    /\ pose = [global |-> Pose("initial", <<>>), location |-> NullPose]
    /\ far = [global |-> 1000000, location |-> 0]
    /\ controlsEnabled = TRUE
    /\ timers = 0
    /\ lc = NewLocationCamera
    /\ ss = NewSolarSystem
    /\ ticks = 0
    /\ events = 0
    /\ lastOp = Step("init", "none")
    /\ hist = [l \in Locations |-> NoHistory]
    /\ marker = NewMarker
    /\ thrown = FALSE

InitPanel ==
    /\ checked = InitChecked
    /\ InitPanelRest

Init ==
    /\ body = [b \in Bodies |-> NewBody(b)]
    /\ InitPanel
    /\ venus = NewVenus
    /\ standalone = NewStandalone([name \in StandaloneNames |-> 0])

NextBodies ==
    \/ \E b \in Bodies : RotationToggleClick(b)
    \/ \E b \in Bodies, v \in SliderValues : RotationSliderInput(b, v)
    \/ \E b \in OrbitControlled : OrbitToggleClick(b)
    \/ \E b \in OrbitControlled, v \in SliderValues : OrbitSliderInput(b, v)
    \/ \E b \in OrbitControlled : CloseViewToggleClick(b)
    \/ GlobalRotationToggleClick
    \/ GlobalOrbitToggleClick
    \/ \E v \in SliderValues : GlobalRotationSliderInput(v)
    \/ \E v \in SliderValues : GlobalOrbitSliderInput(v)
    \/ \E b \in Bodies : RotationResetClick(b)
    \/ \E b \in OrbitControlled : OrbitResetClick(b)
    \/ GlobalRotationResetClick
    \/ GlobalOrbitResetClick
    \/ Tick

NextCamera ==
    \/ \E l \in Locations : LocationViewClick(l)
    \/ \E view \in GlobalViews : GlobalViewClick(view)
    \/ \E e \in ElevationValues : ElevationInput(e)
    \/ \E d \in HorizontalOffsets : HorizontalInput(d)
    \/ \E v \in VerticalSliderValues : VerticalInput(v)
    \/ \E step \in {-ArrowStep, ArrowStep} : VerticalArrowClick(step)
    \/ \E step \in {-ArrowStep, ArrowStep} : HorizontalArrowClick(step)
    \/ OrbitDrag
    \/ TimerFires
    \/ Tick

\* the LocationCamera interface called directly, with any angle
NextApi ==
    \/ \E l \in Locations : LocationViewClick(l)
    \/ \E view \in GlobalViews : GlobalViewClick(view)
    \/ \E v \in VerticalAngleValues : VerticalInput(v)
    \/ \E e \in ElevationOutOfRange : ElevationInput(e)
    \/ \E e \in ElevationOutOfRange : ElevationSet(e)
    \/ DeactivateViewCall
    \/ TimerFires
    \/ Tick

\* the methods whose first line tests a reference, called in any order
NextRefs ==
    \/ \E earth \in BOOLEAN : SetEarth(earth)
    \/ \E location \in MarkerArgs : ActivateViewCall(location)
    \/ UpdateViewCall
    \/ \E planet \in {"earth", "null"} : MarkerAttach(planet)
    \/ MarkerUpdatePosition
    \/ DeactivateViewCall
    \/ TimerFires
    \/ Tick

\* Planet.update applied to a body whose fields hold any rate and any flags:
\* rotationSpeed and orbitSpeed are plain fields, and update reads them as given
RateValues == {-1000, 0, 1000}

InitUpdate ==
    /\ \E b \in Bodies, rotationEnabled \in BOOLEAN, orbitEnabled \in BOOLEAN,
          rotationSpeed \in RateValues, orbitSpeed \in RateValues :
           body = [[c \in Bodies |-> NewBody(c)] EXCEPT
                      ![b].rotationEnabled = rotationEnabled,
                      ![b].orbitEnabled = orbitEnabled,
                      ![b].rotationSpeed = rotationSpeed,
                      ![b].orbitSpeed = orbitSpeed]
    /\ InitPanel
    /\ venus = NewVenus
    /\ standalone = NewStandalone([name \in StandaloneNames |-> 0])

NextUpdate == Tick

\* the planet panes after their rotation and orbit toggles have been clicked or
\* left alone: any combination of the four switches, each checkbox showing its flag
InitCloseView ==
    /\ \E rotating \in SUBSET Planets, orbiting \in SUBSET Planets :
           /\ body = [b \in Bodies |->
                         [NewBody(b) EXCEPT !.rotationEnabled = b \in rotating,
                                            !.orbitEnabled = b \in orbiting]]
           /\ checked = [id \in DOMAIN InitChecked |->
                             \E b \in Planets :
                                 \/ b \in rotating /\ id = OwnToggleId[b].rotation
                                 \/ b \in orbiting /\ id = OwnToggleId[b].orbit]
    /\ InitPanelRest
    /\ venus = NewVenus
    /\ standalone = NewStandalone([name \in StandaloneNames |-> 0])

\* the page after one planet's 'Close View' has been ticked: the state the Close
\* View handler leaves behind when applied to the start state
InitViews ==
    /\ \E first \in Planets :
           LET start == [body |-> [b \in Bodies |-> NewBody(b)],
                         checked |-> [InitChecked EXCEPT ![OwnToggleId[first].side] = TRUE],
                         pose |-> [global |-> Pose("initial", <<>>), location |-> NullPose],
                         threw |-> FALSE]
               entered == ToggleCloseUpView(start, first, "global", TRUE, TRUE)
           IN  /\ body = entered.body
               /\ checked = entered.checked
               /\ pose = entered.pose
    /\ camera = "global"
    /\ far = [global |-> 1000000, location |-> 0]
    /\ controlsEnabled = TRUE
    /\ timers = 0
    /\ lc = NewLocationCamera
    /\ ss = NewSolarSystem
    /\ ticks = 0
    /\ events = 0
    /\ lastOp = Step("init", "none")
    /\ hist = [l \in Locations |-> NoHistory]
    /\ marker = NewMarker
    /\ thrown = FALSE
    /\ venus = NewVenus
    /\ standalone = NewStandalone([name \in StandaloneNames |-> 0])

\* the controls that enter and leave a close view, with the rotation switches
NextViews ==
    \/ \E b \in OrbitControlled : CloseViewToggleClick(b)
    \/ \E b \in OrbitControlled : OrbitToggleClick(b)
    \/ \E b \in Bodies : RotationToggleClick(b)
    \/ Tick

\* the controls that enter and leave a close view
NextCloseView ==
    \/ \E b \in OrbitControlled : CloseViewToggleClick(b)
    \/ \E b \in OrbitControlled : OrbitToggleClick(b)
    \/ \E b \in OrbitControlled, v \in SliderValues : OrbitSliderInput(b, v)
    \/ GlobalOrbitToggleClick
    \/ \E v \in SliderValues : GlobalOrbitSliderInput(v)
    \/ Tick

\* Earth switched on and off while a location view is shown
NextFrame ==
    \/ RotationToggleClick("earth")
    \/ OrbitToggleClick("earth")
    \/ \E l \in Locations : LocationViewClick(l)
    \/ \E view \in GlobalViews : GlobalViewClick(view)
    \/ TimerFires
    \/ Tick

\* the Venus class and the all-planets script, each driven by its own controls
InitRetrograde ==
    /\ body = [b \in Bodies |-> NewBody(b)]
    /\ InitPanel
    /\ venus = NewVenus
    /\ \E angle \in [StandaloneNames -> StartAngles] : standalone = NewStandalone(angle)

NextRetrograde ==
    \/ VenusRotationToggleClick
    \/ \E v \in SliderValues : VenusRotationSliderInput(v)
    \/ VenusUpdateCall
    \/ \E v \in SpinSpeedValues : SpinSpeedInput(v)
    \/ ToggleOrbiting
    \/ Animate

\* the speed sliders alone, dragged to positions on both segments of the curve
CurveEvents == 2
CurveValues == {0, 1, 25, 49, 50, 51, 75, 99, 100}

NextCurve ==
    /\ events < CurveEvents
    /\ \/ \E b \in Bodies, v \in CurveValues : RotationSliderInput(b, v)
       \/ \E b \in OrbitControlled, v \in CurveValues : OrbitSliderInput(b, v)
       \/ \E v \in CurveValues : GlobalRotationSliderInput(v)
       \/ \E v \in CurveValues : GlobalOrbitSliderInput(v)

Next == NextBodies \/ NextCamera

Spec == Init /\ [][Next]_vars
SpecBodies == Init /\ [][NextBodies]_vars
SpecCamera == Init /\ [][NextCamera]_vars
SpecApi == Init /\ [][NextApi]_vars
SpecRefs == Init /\ [][NextRefs]_vars
SpecUpdate == InitUpdate /\ [][NextUpdate]_vars
SpecCurve == Init /\ [][NextCurve]_vars
SpecCloseView == InitCloseView /\ [][NextCloseView]_vars
SpecViews == InitViews /\ [][NextViews]_vars
SpecFrame == Init /\ [][NextFrame]_vars
SpecRetrograde == InitRetrograde /\ [][NextRetrograde]_vars
\* the browser runs a pending zero-delay timer
FairSpecCamera == SpecCamera /\ WF_vars(TimerFires)

\* ------------------------------------------------------------------ properties
\* C1: after every tick, at any orbit rate, the orbit angle and the angle of the
\* tilt frame about the vertical axis still add up to their initial sum, 0, and
\* the tilt itself is the one applyTilt set: the axis keeps its direction
TiltInvariance ==
    \A b \in Bodies :
        /\ body[b].orbitRotY + body[b].groupRotY = 0
        /\ body[b].groupRotZ = AxialTilt[b]

\* two frames have moved a planet along its orbit
TiltInvarianceWitness ==
    /\ ticks = MaxTicks
    /\ \E b \in Planets :
           /\ body[b].orbitEnabled
           /\ body[b].orbitRotY = 2 * body[b].orbitSpeed
           /\ body[b].orbitRotY > 0

OrbitTickExact ==
    [][lastOp'.name = "tick" =>
          \A b \in Bodies :
              body[b].orbitEnabled =>
                  /\ body'[b].orbitRotY = body[b].orbitRotY + body[b].orbitSpeed
                  /\ body'[b].groupRotY = body[b].groupRotY - body[b].orbitSpeed
                  /\ ~body[b].rotationEnabled =>
                         body'[b].sphereRotY = body[b].sphereRotY]_vars

\* the first frame of a planet that orbits without spinning
OrbitTickExactWitness ==
    /\ lastOp.name = "tick"
    /\ ticks = 1
    /\ \E b \in Planets :
           /\ body[b].orbitEnabled
           /\ ~body[b].rotationEnabled
           /\ body[b].orbitSpeed > 0
           /\ body[b].orbitRotY = body[b].orbitSpeed
           /\ body[b].groupRotY = -body[b].orbitSpeed
           /\ body[b].sphereRotY = 0

\* C3: the location camera is active exactly when a location is set, and a click
\* on the button of location B, whatever was active before, leaves B the one
\* active location
OneActiveLocation ==
    /\ lc.isActive <=> lc.activeLocation # "none"
    /\ lc.isActive <=> ss.inLocationView
    /\ lastOp.name = "locationView" =>
           /\ lc.isActive
           /\ lc.activeLocation = lastOp.target

\* Budapest was activated, then Kiruna straight after it
OneActiveLocationWitness ==
    /\ events = 2
    /\ lastOp.name = "locationView"
    /\ lastOp.target = "kiruna"
    /\ lc.locationSettings["budapest"].stored
    /\ lc.activeLocation = "kiruna"
    /\ timers = 1

\* C4: whenever no location view is active the render camera is the global
\* camera, and the camera a location view remembers to restore is the global
\* camera, also when the view was entered straight from another location
GlobalCameraRestored ==
    /\ ~lc.isActive => camera = "global"
    /\ lc.isActive => camera = "location"
    /\ lc.originalCamera \in {"null", "global"}
    /\ lc.hasLocationCamera => lc.originalCamera = "global"

\* Budapest, then Kiruna straight after it, then a global view
GlobalCameraRestoredWitness ==
    /\ events = 3
    /\ lastOp.name = "globalView"
    /\ \A l \in Locations : lc.locationSettings[l].stored
    /\ timers = 2
    /\ ~lc.isActive
    /\ camera = "global"

\* C6: a click on the button of a location brings back the elevation and the two
\* angles the user last set while that location was active, whatever was done in
\* other views in between
SettingsPersist ==
    \A l \in Locations :
        (lastOp.name = "locationView" /\ lastOp.target = l) =>
            /\ hist[l].h # <<>> => lc.cameraHorizontalAngle = hist[l].h[1]
            /\ hist[l].v # <<>> => lc.cameraVerticalAngle = hist[l].v[1]
            /\ hist[l].e # <<>> => lc.cameraElevation = hist[l].e[1]
            /\ lc.locationSettings[l] =
                   Stored(lc.cameraHorizontalAngle, lc.cameraVerticalAngle, lc.cameraElevation)

\* horizontal angle set in Budapest, another one set in Kiruna, Budapest entered again
SettingsPersistWitness ==
    /\ lastOp.name = "locationView"
    /\ lastOp.target = "budapest"
    /\ hist["budapest"].h # <<>>
    /\ hist["kiruna"].h # <<>>
    /\ hist["budapest"].h # hist["kiruna"].h
    /\ lc.cameraHorizontalAngle = hist["budapest"].h[1]
    /\ lc.locationSettings["kiruna"].horizontalAngle = hist["kiruna"].h[1]

\* C7: after a click on a global view button the location camera is inactive,
\* the render camera is the global camera with OrbitControls enabled, and it is
\* the global camera that holds the pose of the view
GlobalViewLeavesLocation ==
    lastOp.name = "globalView" =>
        /\ ~lc.isActive
        /\ lc.activeLocation = "none"
        /\ ~ss.inLocationView
        /\ camera = "global"
        /\ controlsEnabled
        /\ ss.activeView = lastOp.target
        /\ pose.global.kind =
               CASE lastOp.target = "topView" -> "top"
                 [] lastOp.target = "sideView" -> "side"
                 [] lastOp.target = "sunView" -> "sun"
                 [] lastOp.target = "earthView" -> "earth"

\* a global view chosen while a location view was active
GlobalViewLeavesLocationWitness ==
    /\ events = 2
    /\ lastOp.name = "globalView"
    /\ lc.hasLocationCamera
    /\ timers = 1
    /\ pose.location.kind = "location"
    /\ pose.global.kind \in {"top", "side", "sun", "earth"}

\* C8: once a location view has been left, OrbitControls become enabled, at the
\* latest when the zero-delay timer has fired, unless a location view is entered
\* again first; and enabled controls stay enabled for as long as no location
\* view is entered
ControlsReenabled ==
    /\ (~lc.isActive /\ lc.hasLocationCamera) ~>
           (lc.isActive \/ (controlsEnabled /\ timers = 0))
    /\ [][(~lc.isActive /\ controlsEnabled /\ ~lc'.isActive) => controlsEnabled']_vars

\* the timer of a deactivation has fired with no location view entered since
ControlsReenabledWitness ==
    /\ lastOp.name = "timer"
    /\ lc.hasLocationCamera
    /\ ~lc.isActive
    /\ timers = 0
    /\ controlsEnabled

\* C5: deactivateView called while no location view is active changes nothing and
\* schedules no timer, and a call always ends with no location view active: two
\* calls in a row leave what one call leaves
DeactivateIdempotent ==
    [][lastOp'.name = "deactivateView" =>
          /\ ~lc'.isActive
          /\ lc'.activeLocation = "none"
          /\ ~lc.isActive =>
                 UNCHANGED <<camera, pose, far, controlsEnabled, timers, lc, ss, body>>]_vars

\* a location view entered, then deactivateView called twice in a row
DeactivateIdempotentWitness ==
    /\ events = 3
    /\ lastOp.name = "deactivateView"
    /\ lastOp.again
    /\ lc.hasLocationCamera
    /\ ~lc.isActive
    /\ timers = 1

\* C10: a vertical angle set on the active location camera and followed by
\* updateView is stored as that angle brought into
\* [-(pi/2 - 0.1), pi/2 - 0.1]; setting the same angle again, or running
\* updateView again, leaves the stored angle as it is
ClampIdempotent ==
    [][/\ (lastOp'.name = "verticalInput" /\ lc'.isActive) =>
              /\ lc'.cameraVerticalAngle =
                     IF lastOp'.value > VerticalLimit THEN VerticalLimit
                     ELSE IF lastOp'.value < -VerticalLimit THEN -VerticalLimit
                     ELSE lastOp'.value
              /\ lastOp'.again => lc'.cameraVerticalAngle = lc.cameraVerticalAngle
       /\ (lastOp'.name = "tick" /\ lc.isActive) =>
              lc'.cameraVerticalAngle = lc.cameraVerticalAngle]_vars

\* an angle above the range set twice in a row on an active location camera
ClampIdempotentWitness ==
    /\ events = 3
    /\ lastOp.name = "verticalInput"
    /\ lastOp.value > VerticalLimit
    /\ lastOp.again
    /\ lc.isActive
    /\ lc.cameraVerticalAngle = VerticalLimit

\* C11: the clamp comes after the use: the stored vertical angle of the location
\* camera is within [-(pi/2 - 0.1), pi/2 - 0.1] whenever a handler or a frame has
\* returned, so the pose a frame computes after the one that first saw an
\* out-of-range angle is computed from a clamped angle
ClampAfterUse ==
    /\ -VerticalLimit <= lc.cameraVerticalAngle
    /\ lc.cameraVerticalAngle <= VerticalLimit
    /\ (lastOp.name = "tick" /\ lc.isActive) =>
           /\ pose.location.args[4] = lc.cameraVerticalAngle
           /\ -VerticalLimit <= pose.location.args[4]
           /\ pose.location.args[4] <= VerticalLimit

\* an angle above the range was set, its own pose used it as given, and the next
\* frame is about to use the clamped one
ClampAfterUseWitness ==
    /\ lastOp.name = "verticalInput"
    /\ lastOp.value > VerticalLimit
    /\ lc.isActive
    /\ pose.location.args[4] = lastOp.value
    /\ lc.cameraVerticalAngle = VerticalLimit

MissingReferenceNoOp ==
    [][(\/ /\ lastOp'.name = "activateView"
           /\ \/ ~lc.earth
              \/ lastOp'.target = "null"
              \/ lastOp'.target = "spare" /\ ~marker.mesh
        \/ /\ lastOp'.name = "updateView"
           /\ ~lc.isActive \/ ~lc.earth
        \/ /\ lastOp'.name = "attachToPlanet"
           /\ lastOp'.target = "null"
        \/ /\ lastOp'.name = "updatePosition"
           /\ ~marker.mesh \/ marker.planet = "null")
       => /\ ~thrown'
          /\ UNCHANGED <<camera, pose, far, controlsEnabled, timers, lc, ss, marker,
                         body, checked>>]_vars

\* activateView was handed a marker without a mesh while the view from Budapest
\* was active: that view is still the active one
MissingReferenceNoOpWitness ==
    /\ lastOp.name = "activateView"
    /\ lastOp.target = "spare"
    /\ ~marker.mesh
    /\ lc.isActive
    /\ lc.activeLocation = "budapest"
    /\ camera = "location"
    /\ ~controlsEnabled
    /\ ~thrown

SliderZeroKeepsFlag ==
    [][/\ (lastOp'.name = "rotationSlider" /\ lastOp'.value = 0) =>
              /\ body'[lastOp'.target].rotationSpeed = 0
              /\ body'[lastOp'.target].rotationEnabled = body[lastOp'.target].rotationEnabled
              /\ checked' = checked
       /\ (lastOp'.name = "orbitSlider" /\ lastOp'.value = 0) =>
              /\ body'[lastOp'.target].orbitSpeed = 0
              /\ body'[lastOp'.target].orbitEnabled = body[lastOp'.target].orbitEnabled
              /\ checked' = checked
       /\ (lastOp'.name = "globalRotationSlider" /\ lastOp'.value = 0) =>
              /\ \A i \in DOMAIN PlanetList : body'[PlanetList[i]].rotationSpeed = 0
              /\ \A b \in Bodies : body'[b].rotationEnabled = body[b].rotationEnabled
              /\ checked' = checked
       /\ (lastOp'.name = "globalOrbitSlider" /\ lastOp'.value = 0) =>
              /\ \A i \in DOMAIN PlanetList : body'[PlanetList[i]].orbitSpeed = 0
              /\ \A b \in Bodies : body'[b].orbitEnabled = body[b].orbitEnabled
              /\ checked' = checked
       /\ lastOp'.name = "tick" =>
              \A b \in Bodies :
                  /\ body[b].rotationSpeed = 0 =>
                         /\ body'[b].sphereRotY = body[b].sphereRotY
                         /\ body'[b].rotationEnabled = body[b].rotationEnabled
                  /\ body[b].orbitSpeed = 0 =>
                         /\ body'[b].orbitRotY = body[b].orbitRotY
                         /\ body'[b].groupRotY = body[b].groupRotY
                         /\ body'[b].orbitEnabled = body[b].orbitEnabled]_vars

\* a body that was switched on and turned for one frame, then had its rotation
\* slider moved to 0: the next frame finds it enabled, at rate 0, where it was
SliderZeroKeepsFlagWitness ==
    /\ lastOp.name = "tick"
    /\ ticks = 1
    /\ events = 2
    /\ \E b \in Bodies :
           /\ body[b].rotationEnabled
           /\ checked[OwnToggleId[b].rotation]
           /\ body[b].rotationSpeed = 0
           /\ body[b].sphereRotY = BaseSpeed(RotationPeriod[b])

\* C17: a speed slider at 0 gives rate 0, and at 50 the rate it stores is the
\* base rate 2 pi / (period * 60), which is also what the formula of the branch
\* above 50 gives at 50: the two segments of the curve meet there.  (A slider of
\* the SolarSystem pane writes the planets in turn; a planet it did not get to
\* keeps the rate it had.)
CurveContinuous ==
    [][/\ (lastOp'.name = "rotationSlider" /\ lastOp'.value = 0) =>
              body'[lastOp'.target].rotationSpeed = 0
       /\ (lastOp'.name = "orbitSlider" /\ lastOp'.value = 0) =>
              body'[lastOp'.target].orbitSpeed = 0
       /\ (lastOp'.name = "globalRotationSlider" /\ lastOp'.value = 0) =>
              \A i \in DOMAIN PlanetList : body'[PlanetList[i]].rotationSpeed = 0
       /\ (lastOp'.name = "globalOrbitSlider" /\ lastOp'.value = 0) =>
              \A i \in DOMAIN PlanetList : body'[PlanetList[i]].orbitSpeed = 0
       /\ (lastOp'.name = "rotationSlider" /\ lastOp'.value = 50) =>
              LET b == lastOp'.target
              IN  /\ body'[b].rotationSpeed = BaseSpeed(RotationPeriod[b])
                  /\ body'[b].rotationSpeed =
                         UpperBranchSpeed(50, RotationPeriod[b], MaxRotationPeriod[b])
       /\ (lastOp'.name = "orbitSlider" /\ lastOp'.value = 50) =>
              LET b == lastOp'.target
              IN  /\ body'[b].orbitSpeed = BaseSpeed(OrbitalPeriod[b])
                  /\ body'[b].orbitSpeed =
                         UpperBranchSpeed(50, OrbitalPeriod[b], MaxOrbitalPeriod[b])
       /\ (lastOp'.name = "globalRotationSlider" /\ lastOp'.value = 50) =>
              \A i \in DOMAIN PlanetList :
                  LET b == PlanetList[i]
                  IN  /\ body'[b].rotationSpeed = BaseSpeed(RotationPeriod[b])
                      /\ body'[b].rotationSpeed =
                             UpperBranchSpeed(50, RotationPeriod[b], MaxRotationPeriod[b])
       /\ (lastOp'.name = "globalOrbitSlider" /\ lastOp'.value = 50) =>
              /\ UpperBranchSpeed(50, OrbitalPeriod[PlanetList[1]],
                                   MaxOrbitalPeriod[PlanetList[1]])
                     = body'[PlanetList[1]].orbitSpeed
              /\ \A i \in DOMAIN PlanetList :
                     LET b == PlanetList[i]
                     IN  \/ /\ body'[b].orbitSpeed = BaseSpeed(OrbitalPeriod[b])
                            /\ body'[b].orbitSpeed =
                                   UpperBranchSpeed(50, OrbitalPeriod[b], MaxOrbitalPeriod[b])
                         \/ /\ i > 1
                            /\ body'[b].orbitSpeed = body[b].orbitSpeed]_vars

\* the Sun's rotation slider dragged from 100 back to 50
CurveContinuousWitness ==
    /\ lastOp.name = "rotationSlider" /\ lastOp.target = "sun" /\ lastOp.value = 50
    /\ events = 2
    /\ body["sun"].rotationSpeed = BaseSpeed(RotationPeriod["sun"])
    /\ body["sun"].rotationSpeed > 0
    /\ body["sun"].rotationSpeed < SliderSpeed(100, RotationPeriod["sun"], MaxRotationPeriod["sun"])

\* C18: when a speed slider is dragged from a position v1 > 0 to a position
\* v2 >= v1, the rate it stores for a body is not smaller than the rate it
\* stored before, on either segment of the curve and across position 50
CurveMonotone ==
    [][/\ ( /\ lastOp.name = "rotationSlider" /\ lastOp'.name = "rotationSlider"
            /\ lastOp'.target = lastOp.target
            /\ 0 < lastOp.value /\ lastOp.value <= lastOp'.value ) =>
              body'[lastOp'.target].rotationSpeed >= body[lastOp'.target].rotationSpeed
       /\ ( /\ lastOp.name = "orbitSlider" /\ lastOp'.name = "orbitSlider"
            /\ lastOp'.target = lastOp.target
            /\ 0 < lastOp.value /\ lastOp.value <= lastOp'.value ) =>
              body'[lastOp'.target].orbitSpeed >= body[lastOp'.target].orbitSpeed
       /\ ( /\ lastOp.name = "globalRotationSlider" /\ lastOp'.name = "globalRotationSlider"
            /\ 0 < lastOp.value /\ lastOp.value <= lastOp'.value ) =>
              \A i \in DOMAIN PlanetList :
                  body'[PlanetList[i]].rotationSpeed >= body[PlanetList[i]].rotationSpeed
       /\ ( /\ lastOp.name = "globalOrbitSlider" /\ lastOp'.name = "globalOrbitSlider"
            /\ 0 < lastOp.value /\ lastOp.value <= lastOp'.value ) =>
              \A i \in DOMAIN PlanetList :
                  body'[PlanetList[i]].orbitSpeed >= body[PlanetList[i]].orbitSpeed]_vars

\* Mars's orbit slider dragged from 49 on the lower segment to 51 on the upper
CurveMonotoneWitness ==
    /\ lastOp.name = "orbitSlider" /\ lastOp.target = "mars" /\ lastOp.value = 51
    /\ events = 2
    /\ body["mars"].orbitSpeed = SliderSpeed(51, OrbitalPeriod["mars"], MaxOrbitalPeriod["mars"])
    /\ body["mars"].orbitSpeed > BaseSpeed(OrbitalPeriod["mars"])
    /\ BaseSpeed(OrbitalPeriod["mars"]) >
           SliderSpeed(49, OrbitalPeriod["mars"], MaxOrbitalPeriod["mars"])

\* C19 as stated: Venus applies its per-tick spin delta with the sign negated
\* relative to prograde bodies, in the Venus class and in the all-planets loop
RetrogradeSpinNegated ==
    [][/\ (lastOp'.name = "venusUpdate" /\ venus.rotationEnabled /\ venus.rotationSpeed > 0) =>
              venus'.sphereRotY = venus.sphereRotY - venus.rotationSpeed
       /\ lastOp'.name = "animate" =>
              standalone'.meshRotY["venus"] =
                  standalone.meshRotY["venus"] - SpinDelta(standalone, "venus")]_vars

\* C19: the Venus class adds its per-tick spin delta with the same sign as a
\* prograde body and is retrograde only through its configured tilt of 177.3
\* degrees; the all-planets loop subtracts the delta for the body named venus
\* and adds it for every other body
RetrogradeByTiltOrByName ==
    [][/\ (lastOp'.name = "venusUpdate" /\ venus.rotationEnabled /\ venus.rotationSpeed > 0) =>
              /\ venus'.sphereRotY = venus.sphereRotY + venus.rotationSpeed
              /\ venus'.groupRotZ = VenusAxialTilt
              /\ VenusAxialTilt > 9000
       /\ lastOp'.name = "animate" =>
              \A name \in StandaloneNames :
                  standalone'.meshRotY[name] =
                      IF name = "venus"
                      THEN standalone.meshRotY[name] - SpinDelta(standalone, name)
                      ELSE standalone.meshRotY[name] + SpinDelta(standalone, name)]_vars

\* Venus switched on and updated once after one frame of the all-planets loop:
\* its sphere angle has grown, the mesh named venus has turned backwards
RetrogradeByTiltOrByNameWitness ==
    /\ lastOp.name = "venusUpdate"
    /\ venus.rotationEnabled
    /\ venus.rotationSpeed > 0
    /\ venus.sphereRotY = venus.rotationSpeed
    /\ standalone.meshRotY["venus"] < 0
    /\ standalone.meshRotY["earth"] > 0

\* C20 as stated: after a click on any global view button the far distance of
\* the global camera is ten times the distance that view computes
FarFollowsView ==
    lastOp.name = "globalView" =>
        far["global"] = 10 * ( IF lastOp.target = "topView" THEN TopDistance
                               ELSE IF lastOp.target = "sideView" THEN SideDistance
                               ELSE IF lastOp.target = "sunView" THEN SunDistance
                               ELSE EarthDistance )

\* C20: the top and side views set the far distance of the global camera to ten
\* times the distance they compute; the Sun and Earth views leave it as it was,
\* and nothing else changes it, so the far distance is always the one of the top
\* or side view shown last, or the initial one
FarFollowsTopOrSideView ==
    [][/\ (lastOp'.name = "globalView" /\ lastOp'.target = "topView") =>
              far'["global"] = 10 * TopDistance
       /\ (lastOp'.name = "globalView" /\ lastOp'.target = "sideView") =>
              far'["global"] = 10 * SideDistance
       /\ (lastOp'.name = "globalView" /\ lastOp'.target \in {"sunView", "earthView"}) =>
              /\ far'["global"] = far["global"]
              /\ pose'["global"].kind = (IF lastOp'.target = "sunView" THEN "sun" ELSE "earth")
       /\ far'["global"] # far["global"] =>
              (lastOp'.name = "globalView" /\ lastOp'.target \in {"topView", "sideView"})]_vars

\* the Sun view entered from the side view: the camera stands at the Sun view's
\* distance and still has the far distance of the side view
FarFollowsTopOrSideViewWitness ==
    /\ lastOp.name = "globalView" /\ lastOp.target = "sunView"
    /\ camera = "global"
    /\ pose["global"] = Pose("sun", <<SunDistance>>)
    /\ far["global"] = 10 * SideDistance
    /\ far["global"] # 10 * SunDistance

\* C21: after a click on the top or the side view button the camera stands at a
\* distance computed from the largest orbit radius among the planets, and that
\* distance is greater than the largest orbit radius
WholeSystemViewsFrameMaxOrbit ==
    LET R == MaxOrbitRadius(PlanetList)
    IN  /\ (lastOp.name = "globalView" /\ lastOp.target = "topView") =>
               /\ pose["global"] =
                      Pose("top", <<((((2 * R) * 500) \div TanHalfFovMilli) * 12) \div 10>>)
               /\ pose["global"].args[1] > R
        /\ (lastOp.name = "globalView" /\ lastOp.target = "sideView") =>
               /\ pose["global"] = Pose("side", <<(R * 15) \div 10>>)
               /\ pose["global"].args[1] > R

\* C22: when a frame has been computed with the location camera active, the
\* pose it renders from was computed from the angles Earth has after the same
\* frame's update
PoseReflectsSameTick ==
    (lastOp.name = "tick" /\ lc.isActive /\ camera = "location") =>
        /\ pose["location"].kind = "location"
        /\ pose["location"].args[5] = body["earth"].orbitRotY
        /\ pose["location"].args[6] = body["earth"].groupRotY
        /\ pose["location"].args[7] = body["earth"].sphereRotY

\* two frames of a spinning and orbiting Earth seen from a location
PoseReflectsSameTickWitness ==
    /\ lastOp.name = "tick"
    /\ lc.isActive /\ camera = "location"
    /\ ticks = 2
    /\ body["earth"].sphereRotY = 2 * body["earth"].rotationSpeed
    /\ body["earth"].sphereRotY > 0
    /\ pose["location"].args[7] = body["earth"].sphereRotY

\* C23: as long as the user has done nothing, every animation frame advances
\* the orbit angle of every planet
PlanetsOrbitAutomatically ==
    [][(events = 0 /\ lastOp'.name = "tick") =>
           \A b \in Planets : body'[b].orbitRotY # body[b].orbitRotY]_vars

\* C24: in every state left by a handler or a timer callback, an active location
\* camera means that the navigation controls are disabled
ControlsOffWhileLocationActive ==
    lc.isActive => ~controlsEnabled

\* C25: a speed slider moved to a value above 0 leaves the body it drives with
\* the new rate and the motion enabled, both written by the one handler, and the
\* frame that follows the handler turns the body by the new rate.  (The orbit
\* slider of the SolarSystem pane writes the planets in turn; a planet it did not
\* get to keeps both its old rate and its old flag.)
SliderTurnsMotionOn ==
    [][/\ (lastOp'.name = "rotationSlider" /\ lastOp'.value > 0) =>
              LET b == lastOp'.target
              IN  /\ body'[b].rotationEnabled
                  /\ ~body[b].rotationEnabled => checked'[OwnToggleId[b].rotation]
                  /\ body'[b].rotationSpeed =
                         SliderSpeed(lastOp'.value, RotationPeriod[b], MaxRotationPeriod[b])
       /\ (lastOp'.name = "orbitSlider" /\ lastOp'.value > 0) =>
              LET b == lastOp'.target
              IN  /\ body'[b].orbitEnabled
                  /\ body'[b].orbitSpeed =
                         SliderSpeed(lastOp'.value, OrbitalPeriod[b], MaxOrbitalPeriod[b])
       /\ (lastOp'.name = "globalRotationSlider" /\ lastOp'.value > 0) =>
              \A i \in DOMAIN PlanetList :
                  LET b == PlanetList[i]
                  IN  /\ body'[b].rotationEnabled
                      /\ body'[b].rotationSpeed =
                             SliderSpeed(lastOp'.value, RotationPeriod[b], MaxRotationPeriod[b])
       /\ (lastOp'.name = "globalOrbitSlider" /\ lastOp'.value > 0) =>
              /\ body'[PlanetList[1]].orbitEnabled
              /\ \A i \in DOMAIN PlanetList :
                     LET b == PlanetList[i]
                     IN  \/ /\ body'[b].orbitEnabled
                            /\ body'[b].orbitSpeed =
                                   SliderSpeed(lastOp'.value, OrbitalPeriod[b], MaxOrbitalPeriod[b])
                         \/ /\ i > 1
                            /\ body'[b].orbitEnabled = body[b].orbitEnabled
                            /\ body'[b].orbitSpeed = body[b].orbitSpeed
       /\ (lastOp.name = "rotationSlider" /\ lastOp.value > 0 /\ lastOp'.name = "tick") =>
              LET b == lastOp.target
              IN  body'[b].sphereRotY = body[b].sphereRotY +
                      SliderSpeed(lastOp.value, RotationPeriod[b], MaxRotationPeriod[b])
       /\ (lastOp.name = "orbitSlider" /\ lastOp.value > 0 /\ lastOp'.name = "tick") =>
              LET b == lastOp.target
              IN  body'[b].orbitRotY = body[b].orbitRotY +
                      SliderSpeed(lastOp.value, OrbitalPeriod[b], MaxOrbitalPeriod[b])
       /\ (lastOp.name = "globalRotationSlider" /\ lastOp.value > 0 /\ lastOp'.name = "tick") =>
              \A i \in DOMAIN PlanetList :
                  LET b == PlanetList[i]
                  IN  body'[b].sphereRotY = body[b].sphereRotY +
                          SliderSpeed(lastOp.value, RotationPeriod[b], MaxRotationPeriod[b])]_vars

\* the rotation slider of a body at rest dragged to 100, then one frame
SliderTurnsMotionOnWitness ==
    /\ lastOp.name = "tick"
    /\ events = 1
    /\ ticks = 1
    /\ \E b \in Bodies :
           /\ body[b].rotationEnabled
           /\ body[b].rotationSpeed = SliderSpeed(100, RotationPeriod[b], MaxRotationPeriod[b])
           /\ body[b].sphereRotY = body[b].rotationSpeed
           /\ body[b].rotationSpeed > BaseSpeed(RotationPeriod[b])

\* C26: a Reset button, of a body pane or of the SolarSystem pane, sets the
\* speed of every body it drives to the base speed and leaves every enabled flag
\* as it was
ResetKeepsEnabledState ==
    [][/\ lastOp'.name = "rotationReset" =>
              /\ body'[lastOp'.target].rotationSpeed = BaseSpeed(RotationPeriod[lastOp'.target])
              /\ body'[lastOp'.target].rotationEnabled = body[lastOp'.target].rotationEnabled
       /\ lastOp'.name = "orbitReset" =>
              /\ body'[lastOp'.target].orbitSpeed = BaseSpeed(OrbitalPeriod[lastOp'.target])
              /\ body'[lastOp'.target].orbitEnabled = body[lastOp'.target].orbitEnabled
       /\ lastOp'.name = "globalRotationReset" =>
              /\ \A i \in DOMAIN PlanetList :
                     body'[PlanetList[i]].rotationSpeed = BaseSpeed(RotationPeriod[PlanetList[i]])
              /\ \A b \in Bodies : body'[b].rotationEnabled = body[b].rotationEnabled
       /\ lastOp'.name = "globalOrbitReset" =>
              /\ \A i \in DOMAIN PlanetList :
                     body'[PlanetList[i]].orbitSpeed = BaseSpeed(OrbitalPeriod[PlanetList[i]])
              /\ \A b \in Bodies : body'[b].orbitEnabled = body[b].orbitEnabled]_vars

\* C27: switching a body's close view on turns its rotation and orbit off and
\* records what they were; when the next control event is the one that leaves
\* the close view, rotation and orbit are again what they were before the close
\* view (left by the close view toggle), or rotation is what it was and the
\* orbit is on (left by switching the orbit on)
CloseViewRoundTrip ==
    [][/\ (lastOp'.name = "closeViewToggle" /\ lastOp'.value = 1) =>
              LET b == lastOp'.target
              IN  /\ ~body'[b].rotationEnabled
                  /\ ~body'[b].orbitEnabled
                  /\ body'[b].prevRotationEnabled = body[b].rotationEnabled
                  /\ body'[b].prevOrbitEnabled = body[b].orbitEnabled
       /\ ( /\ lastOp.name = "closeViewToggle" /\ lastOp.value = 1
            /\ lastOp'.name = "closeViewToggle" /\ lastOp'.value = 0
            /\ lastOp'.target = lastOp.target ) =>
              LET b == lastOp.target
              IN  /\ body'[b].rotationEnabled = body[b].prevRotationEnabled
                  /\ body'[b].orbitEnabled = body[b].prevOrbitEnabled
       /\ ( /\ lastOp.name = "closeViewToggle" /\ lastOp.value = 1
            /\ lastOp'.name = "orbitToggle" /\ lastOp'.value = 1
            /\ lastOp'.target = lastOp.target ) =>
              LET b == lastOp.target
              IN  /\ body'[b].rotationEnabled = body[b].prevRotationEnabled
                  /\ body'[b].orbitEnabled]_vars

\* C28: no body has its side view and its orbit both on, and no body has its
\* side view and its close-up view both on
CloseViewExcludesOrbit ==
    \A b \in Planets :
        /\ ~(body[b].sideViewEnabled /\ body[b].orbitEnabled)
        /\ ~(body[b].sideViewEnabled /\ body[b].closeUpViewEnabled)

CloseViewExcludesOrbitWitness ==
    /\ lastOp.name \in {"orbitToggle", "orbitSlider"}
    /\ lastOp.target \in Planets
    /\ body[lastOp.target].orbitEnabled
    /\ body[lastOp.target].originalCameraPosition # NullPose
    /\ ~body[lastOp.target].sideViewEnabled

CloseViewRestoresCamera ==
    (\A b \in Planets : ~body[b].sideViewEnabled) => pose[camera] = Pose("initial", <<>>)

====
